---- MODULE Spec2Model ----
(***************************************************************************)
(* Model of hzncui: the configuration resolver (hzncui/config.py) and the  *)
(* dashboard controller hzncuiApp (hzncui/__init__.py).                    *)
(*                                                                         *)
(* The registry and the terminal toolkit are the environment: every HTTP   *)
(* response is an input drawn from a bounded set, and the toolkit calls a  *)
(* selection-change handler when the highlighted item of a menu changes.   *)
(***************************************************************************)
EXTENDS FiniteSets, Integers, Sequences, TLC

VARIABLES
    environ,        \* os.environ: a function from the keys that are set to their values
    envFiles,       \* the .env file (or none) at each of the four searched locations
    widgets,        \* the widgets added to the PyCUI parent, in the order they were added
    primary_menu,   \* self.primary_menu: index into widgets, 0 = attribute not set
    secondary_menu, \* self.secondary_menu
    tertiary_menu,  \* self.tertiary_menu
    nodeArray,      \* self.nodeArray: dict id -> node record
    serviceArray,   \* self.serviceArray
    patternArray,   \* self.patternArray
    defined,        \* which of the three dict attributes have been assigned
    raised,         \* "" or the exception that escaped a handler (the process is gone)
    lastOp,         \* history: the operation that ran last and its argument
    http            \* history: the requests issued by that operation, with their responses

vars == <<environ, envFiles, widgets, primary_menu, secondary_menu, tertiary_menu,
          nodeArray, serviceArray, patternArray, defined, raised, lastOp, http>>

----------------------------------------------------------------------------
(* Bounds *)

\* longest node list / largest services or patterns mapping in a well-formed response
MaxLen == 2

----------------------------------------------------------------------------
(* JSON values as json.loads / r.json() return them.  Every value has the  *)
(* same three fields: s holds a scalar's text, items a list's elements or  *)
(* an object's key/value pairs in document order.                          *)

JNull == [kind |-> "null", s |-> "", items |-> <<>>]
JStr(str) == [kind |-> "str", s |-> str, items |-> <<>>]
JBool(b) == [kind |-> "bool", s |-> b, items |-> <<>>]
JList(elems) == [kind |-> "list", s |-> "", items |-> elems]
JObject(pairs) == [kind |-> "object", s |-> "", items |-> pairs]
\* a body json.loads rejects
NotJson == [kind |-> "invalid", s |-> "", items |-> <<>>]

Pair(key, value) == [k |-> key, v |-> value]

\* Python truth value of a parsed JSON value
Truthy(j) ==
    CASE j.kind = "null" -> FALSE
      [] j.kind = "bool" -> j.s = "true"
      [] j.kind = "str" -> j.s # ""
      [] OTHER -> Len(j.items) > 0

\* str(value), as an f-string formats it
PyStr(j) ==
    CASE j.kind = "null" -> "None"
      [] j.kind = "bool" -> (IF j.s = "true" THEN "True" ELSE "False")
      [] OTHER -> j.s

\* Python's None where it is used as a dict key or formatted into a title
PyNone == "None"

(* A Python dict is the sequence of its key/value pairs in insertion order *)
DictHas(d, key) == \E i \in 1..Len(d) : d[i].k = key
DictGet(d, key, default) ==
    IF DictHas(d, key) THEN d[CHOOSE i \in 1..Len(d) : d[i].k = key].v ELSE default
DictKeys(d) == [i \in 1..Len(d) |-> d[i].k]
\* d[key] = value: an existing key keeps its position
DictPut(d, key, value) ==
    IF DictHas(d, key)
    THEN [i \in 1..Len(d) |-> IF d[i].k = key THEN Pair(key, value) ELSE d[i]]
    ELSE Append(d, Pair(key, value))

RECURSIVE Join(_, _)
\* sep.join(strs)
Join(strs, sep) ==
    IF Len(strs) = 0 THEN ""
    ELSE IF Len(strs) = 1 THEN strs[1]
    ELSE strs[1] \o sep \o Join(Tail(strs), sep)

----------------------------------------------------------------------------
(* hzncui/config.py *)

required_vars == <<"HZN_ORG_ID", "HZN_EXCHANGE_URL", "EXCHANGE_USER_ADMIN_PW">>

\* the four places find_env_file looks at, in its order
possible_locations == <<"cwd", "home", "package", "project_root">>

NoFile == [exists |-> FALSE, vars |-> <<>>]
EnvFile(assignments) == [exists |-> TRUE, vars |-> assignments]

\* index of the first location holding a .env file, 0 when there is none
find_env_file(files) ==
    IF \E i \in 1..Len(possible_locations) : files[i].exists
    THEN CHOOSE i \in 1..Len(possible_locations) :
            /\ files[i].exists
            /\ \A j \in 1..(i - 1) : ~files[j].exists
    ELSE 0

\* load_dotenv without override=True: a value already in os.environ wins
load_dotenv_keep_existing(env, file) ==
    [key \in (DOMAIN env) \cup (DOMAIN file.vars) |->
        IF key \in DOMAIN env THEN env[key] ELSE file.vars[key]]

\* load_dotenv that adds the file's value in front of the value already there
load_dotenv_prepend(env, file) ==
    [key \in (DOMAIN env) \cup (DOMAIN file.vars) |->
        IF key \notin DOMAIN file.vars THEN env[key]
        ELSE IF key \in DOMAIN env THEN file.vars[key] \o ":" \o env[key]
        ELSE file.vars[key]]

\* load_dotenv(path, override=True): every assignment of the file is written
\* into os.environ, replacing a value that is already there
load_dotenv(env, file) ==
    [key \in (DOMAIN env) \cup (DOMAIN file.vars) |->
        IF key \in DOMAIN file.vars THEN file.vars[key] ELSE env[key]]

\* get_env_value: found is FALSE where the code returns (None, 'not_found')
get_env_value(env, key) ==
    IF key \in DOMAIN env
    THEN [found |-> TRUE, value |-> env[key]]
    ELSE [found |-> FALSE, value |-> ""]

\* os.environ after the .env step of load_config
MergedEnviron(env, files) ==
    IF find_env_file(files) = 0 THEN env ELSE load_dotenv(env, files[find_env_file(files)])

RECURSIVE MissingFrom(_, _)
\* the loop of load_config over required_vars: the keys whose value is None
MissingFrom(keys, env) ==
    IF Len(keys) = 0 THEN <<>>
    ELSE (IF get_env_value(env, Head(keys)).found THEN <<>> ELSE <<Head(keys)>>)
         \o MissingFrom(Tail(keys), env)

\* a check that stops at the first required key it does not find
first_missing_var(env) ==
    IF Len(MissingFrom(required_vars, env)) = 0 THEN <<>>
    ELSE <<Head(MissingFrom(required_vars, env))>>

missing_vars(env) == MissingFrom(required_vars, env)

ConfigErrorText(missing) ==
    "Missing required configuration: " \o Join(missing, ", ")
    \o "\nPlease set these in your .env file or environment variables."

\* load_config: the environment it leaves, and the ConfigError it raises ("" = none)
load_config(env, files) ==
    LET merged == MergedEnviron(env, files)
    IN  [environ |-> merged,
         error |-> IF Len(missing_vars(merged)) > 0
                   THEN ConfigErrorText(missing_vars(merged)) ELSE ""]

\* get_config that prefers a supplied default to the value that is set
get_config_default_first(env, key, hasDefault, default) ==
    IF hasDefault THEN [value |-> default, error |-> ""]
    ELSE IF get_env_value(env, key).found
    THEN [value |-> get_env_value(env, key).value, error |-> ""]
    ELSE [value |-> "", error |-> "Required configuration '" \o key \o "' not found"]

\* get_config(key, default) with hasDefault = FALSE for default=None
get_config(env, key, hasDefault, default) ==
    LET got == get_env_value(env, key)
    IN  IF got.found THEN [value |-> got.value, error |-> ""]
        ELSE IF hasDefault THEN [value |-> default, error |-> ""]
        ELSE [value |-> "", error |-> "Required configuration '" \o key \o "' not found"]

\* the three settings every request is built from are all resolvable
ConfigResolves(env) ==
    \A i \in 1..Len(required_vars) : get_config(env, required_vars[i], FALSE, "").error = ""

----------------------------------------------------------------------------
(* The registry: the records it holds and the responses it can give *)

\* the display fields of each resource type, in the order the detail view lists them
NodeFields == <<"nodeType", "arch", "runningServices", "lastHeartbeat", "owner", "name">>
ServiceFields == <<"serviceType", "version", "owner", "name">>
PatternFields == <<"label", "description", "owner", "public", "lastUpdated">>

\* the ids of the records the registry holds, per resource type
NodeIds == <<"n1", "n2">>
ServiceIds == <<"s1", "s2">>
PatternIds == <<"p1", "p2">>
NodeId(i) == NodeIds[i]
ServiceId(i) == ServiceIds[i]
PatternId(i) == PatternIds[i]

\* the registry's value of a field: `public` is a JSON boolean, the rest are strings
FieldValue(field, id) ==
    IF field = "public" THEN JBool("true") ELSE JStr(field \o "-" \o id)

\* which display fields record number i carries: all of them or only the first
FieldsPresent(fields, i) == IF i % 2 = 1 THEN 1..Len(fields) ELSE {1}

RECURSIVE FieldPairs(_, _, _, _)
FieldPairs(fields, present, id, from) ==
    IF from > Len(fields) THEN <<>>
    ELSE (IF from \in present THEN <<Pair(fields[from], FieldValue(fields[from], id))>> ELSE <<>>)
         \o FieldPairs(fields, present, id, from + 1)

NodeRecord(i) ==
    JObject(<<Pair("id", JStr(NodeId(i)))>>
            \o FieldPairs(NodeFields, FieldsPresent(NodeFields, i), NodeId(i), 1))
ServiceRecord(i) ==
    JObject(FieldPairs(ServiceFields, FieldsPresent(ServiceFields, i), ServiceId(i), 1))
PatternRecord(i) ==
    JObject(FieldPairs(PatternFields, FieldsPresent(PatternFields, i), PatternId(i), 1))

\* node entries that are not well formed: no id, an empty id, not an object
NodeNoId == JObject(<<Pair("name", JStr("name-anonymous"))>>)
NodeEmptyId == JObject(<<Pair("id", JStr("")), Pair("name", JStr("name-blank"))>>)
NotARecord == JStr("not-a-record")

NodeElems == {NodeRecord(i) : i \in 1..Len(NodeIds)}

SeqsUpTo(S, n) == UNION {[1..len -> S] : len \in 0..n}

\* the sequences of distinct record numbers: the orders a mapping can come in
Orders ==
    {o \in SeqsUpTo(1..Len(ServiceIds), MaxLen) : \A a, b \in 1..Len(o) : o[a] = o[b] => a = b}

ServiceMapping(o) == JObject([a \in 1..Len(o) |-> Pair(ServiceId(o[a]), ServiceRecord(o[a]))])
PatternMapping(o) == JObject([a \in 1..Len(o) |-> Pair(PatternId(o[a]), PatternRecord(o[a]))])

\* the registry's error envelope, whole and with one of its two fields only
ErrorEnvelope == JObject(<<Pair("code", JStr("E42")), Pair("msg", JStr("registry says no"))>>)
MsgOnly == JObject(<<Pair("msg", JStr("registry says no"))>>)
CodeOnly == JObject(<<Pair("code", JStr("E42"))>>)
\* an object that is neither an envelope nor any endpoint's shape
OtherObject == JObject(<<Pair("status", JStr("ok"))>>)

NodeBodies == {JList(l) : l \in SeqsUpTo(NodeElems, MaxLen)}
\* node lists with an entry that has no id, has an empty id or is no object
OddNodeBodies ==
    {JList(<<NodeNoId>>), JList(<<NodeNoId, NodeRecord(1)>>), JList(<<NodeRecord(1), NodeNoId>>),
     JList(<<NodeEmptyId>>), JList(<<NodeEmptyId, NodeRecord(1)>>),
     JList(<<NotARecord>>), JList(<<NodeRecord(1), NotARecord>>)}
\* a record with none of the display fields
BareRecord == JObject(<<>>)
ServiceBodies ==
    {JObject(<<Pair("services", ServiceMapping(o))>>) : o \in Orders}
    \cup {JObject(<<Pair("services", JObject(<<Pair(ServiceId(1), BareRecord)>>))>>)}
PatternBodies ==
    {JObject(<<Pair("patterns", PatternMapping(o))>>) : o \in Orders}
    \cup {JObject(<<Pair("patterns", JObject(<<Pair(PatternId(1), BareRecord)>>))>>)}

\* bodies that are JSON but not the shape the endpoint promises, or not JSON
Misshapen(type) ==
    {NotJson, JNull, JObject(<<>>), OtherObject, ErrorEnvelope, MsgOnly}
    \cup (CASE type = "Nodes" -> {CodeOnly} \cup OddNodeBodies
            [] type = "Services" ->
                {JList(<<NodeRecord(1)>>),
                 JObject(<<Pair("services", JList(<<JStr(ServiceId(1))>>))>>),
                 JObject(<<Pair("msg", JStr("registry says no")),
                           Pair("services", ServiceMapping(<<1>>))>>)}
            [] OTHER ->
                {JList(<<NodeRecord(1)>>),
                 JObject(<<Pair("patterns", JList(<<JStr(PatternId(1))>>))>>),
                 JObject(<<Pair("msg", JStr("registry says no")),
                           Pair("patterns", PatternMapping(<<1>>))>>)})

WellFormed(type) ==
    CASE type = "Nodes" -> NodeBodies
      [] type = "Services" -> ServiceBodies
      [] OTHER -> PatternBodies

\* one well-formed body a failing registry may still send with a 5xx status
SampleBody(type) ==
    CASE type = "Nodes" -> JList(<<NodeRecord(1)>>)
      [] type = "Services" -> JObject(<<Pair("services", ServiceMapping(<<1>>))>>)
      [] OTHER -> JObject(<<Pair("patterns", PatternMapping(<<1>>))>>)

\* requests.get raised (no response at all)
ConnectionError == [net |-> FALSE, status |-> 0, body |-> NotJson]
Response(status, body) == [net |-> TRUE, status |-> status, body |-> body]

ResponsesOf(type) ==
    {ConnectionError}
    \cup {Response(200, b) : b \in WellFormed(type) \cup Misshapen(type)}
    \cup {Response(500, b) : b \in {ErrorEnvelope, SampleBody(type)}}

NodeResponses == ResponsesOf("Nodes")
ServiceResponses == ResponsesOf("Services")
PatternResponses == ResponsesOf("Patterns")

\* the answers the registry can give to the GET for a resource type
Responses(type) ==
    CASE type = "Nodes" -> NodeResponses
      [] type = "Services" -> ServiceResponses
      [] OTHER -> PatternResponses

\* the answers to the credential check GET users/admin
CredResponses ==
    {ConnectionError, Response(200, OtherObject), Response(401, ErrorEnvelope),
     Response(304, NotJson)}

\* r.raise_for_status() raises HTTPError
HTTPError(r) == r.status >= 400 /\ r.status < 600

\* str(e) of the exception a request or its decoding raised
RequestErrorText(r) ==
    IF ~r.net THEN "Connection refused"
    ELSE IF HTTPError(r)
         THEN ToString(r.status) \o (IF r.status < 500 THEN " Client Error" ELSE " Server Error")
         ELSE ""

\* str(e) of the JSONDecodeError json.loads and r.json() raise
JSONDecodeErrorText == "Expecting value: line 1 column 1 (char 0)"

\* str(e) of the AttributeError of calling `method` on a value that has none
NoAttributeText(j, method) ==
    "'" \o (CASE j.kind = "null" -> "NoneType"
              [] j.kind = "str" -> "str"
              [] j.kind = "bool" -> "bool"
              [] j.kind = "list" -> "list"
              [] OTHER -> "dict")
    \o "' object has no attribute '" \o method \o "'"

----------------------------------------------------------------------------
(* The controller object.  Its methods are operators on the record `self`  *)
(* of its attributes; self.http collects the requests a handler issues and *)
(* self.raised the exception that leaves it.                               *)

\* py_cui: a scroll menu as add_scroll_menu creates it
ScrollMenu(title) == [title |-> title, items |-> <<>>, selected |-> 1, on_change |-> ""]

set_title(self, w, title) == [self EXCEPT !.widgets[w].title = title]
clear(self, w) == [self EXCEPT !.widgets[w].items = <<>>, !.widgets[w].selected = 1]
add_item_list(self, w, list) == [self EXCEPT !.widgets[w].items = @ \o list]
set_on_selection_change_event(self, w, handler) ==
    [self EXCEPT !.widgets[w].on_change = handler]
\* ScrollMenu.get(): the highlighted item
get(self, w) == self.widgets[w].items[self.widgets[w].selected]

Raise(self, exception) == [self EXCEPT !.raised = exception]
Requested(self, endpoint, r) ==
    [self EXCEPT !.http = Append(@, [endpoint |-> endpoint, response |-> r])]

\* the six-line detail view of a node (drawThirdMenu and draw_node_details)
Field(record, field) ==
    IF DictHas(record.items, field) THEN PyStr(DictGet(record.items, field, JNull)) ELSE "N/A"

NodeDetails(node) ==
    << "   node type: " \o Field(node, "nodeType"),
       "architecture: " \o Field(node, "arch"),
       "    services: " \o Field(node, "runningServices"),
       "   heartbeat: " \o Field(node, "lastHeartbeat"),
       "      owner: " \o Field(node, "owner"),
       "       name: " \o Field(node, "name") >>

ServiceDetails(service) ==
    << "   service type: " \o Field(service, "serviceType"),
       "   version: " \o Field(service, "version"),
       "   owner: " \o Field(service, "owner"),
       "   name: " \o Field(service, "name") >>

PatternDetails(pattern) ==
    << "   label: " \o Field(pattern, "label"),
       "   description: " \o Field(pattern, "description"),
       "   owner: " \o Field(pattern, "owner"),
       "   public: " \o Field(pattern, "public"),
       "   lastUpdated: " \o Field(pattern, "lastUpdated") >>

\* set_title, clear, add_item_list on the detail pane
ShowDetails(self, title, lines) ==
    add_item_list(clear(set_title(self, self.tertiary_menu, title), self.tertiary_menu),
                  self.tertiary_menu, lines)

\* drawThirdMenu without its `if not node: return`: a miss reaches node.get and
\* the except clause rewrites the detail pane
drawThirdMenuUnguarded(self, current_node) ==
    LET node == DictGet(self.nodeArray, current_node, JNull)
    IN  IF self.tertiary_menu = 0 THEN Raise(self, "AttributeError")
        ELSE IF "nodeArray" \notin self.defined
        THEN add_item_list(clear(self, self.tertiary_menu), self.tertiary_menu,
                 <<"Error displaying node details: 'hzncuiApp' object has no attribute 'nodeArray'">>)
        ELSE IF node.kind # "object"
        THEN add_item_list(clear(self, self.tertiary_menu), self.tertiary_menu,
                 <<"Error displaying node details: 'NoneType' object has no attribute 'get'">>)
        ELSE ShowDetails(self, "3. Details for node " \o current_node, NodeDetails(node))

\* the selection-change handler of the item menu
drawThirdMenu(self, current_node) ==
    LET node == DictGet(self.nodeArray, current_node, JNull)
    IN  IF "nodeArray" \in self.defined /\ ~Truthy(node) THEN self
        ELSE IF self.tertiary_menu = 0 THEN Raise(self, "AttributeError")
        ELSE IF "nodeArray" \notin self.defined
        THEN add_item_list(clear(self, self.tertiary_menu), self.tertiary_menu,
                 <<"Error displaying node details: 'hzncuiApp' object has no attribute 'nodeArray'">>)
        ELSE ShowDetails(self, "3. Details for node " \o current_node, NodeDetails(node))

draw_node_details(self, node_id) ==
    LET node == DictGet(self.nodeArray, node_id, JNull)
    IN  IF ~Truthy(node) THEN self
        ELSE ShowDetails(self, "3. Details for node " \o node_id, NodeDetails(node))

draw_service_details(self, service_id) ==
    LET service == DictGet(self.serviceArray, service_id, JNull)
    IN  IF ~Truthy(service) THEN self
        ELSE IF service.kind # "object" THEN Raise(self, "AttributeError")
        ELSE ShowDetails(self, "3. Details for service " \o service_id, ServiceDetails(service))

draw_pattern_details(self, pattern_id) ==
    LET pattern == DictGet(self.patternArray, pattern_id, JNull)
    IN  IF ~Truthy(pattern) THEN self
        ELSE IF pattern.kind # "object" THEN Raise(self, "AttributeError")
        ELSE ShowDetails(self, "3. Details for pattern " \o pattern_id, PatternDetails(pattern))

\* clear the item menu and show one line in it
ShowInItemList(self, line) ==
    add_item_list(clear(self, self.secondary_menu), self.secondary_menu, <<line>>)

\* node.get("id", default) for a node whose id, when it has one, is a string
IdOf(node, default) ==
    IF DictHas(node.items, "id") THEN DictGet(node.items, "id", JNull).s ELSE default

RECURSIVE NodeDict(_, _)
\* {node.get("id"): node for node in nodes}, continuing from the dict `into`
NodeDict(nodes, into) ==
    IF Len(nodes) = 0 THEN into
    ELSE NodeDict(Tail(nodes), DictPut(into, IdOf(Head(nodes), PyNone), Head(nodes)))

\* str(e) of the ConfigError get_config raises while a request is being built
RequestConfigError(env) ==
    LET order == <<"HZN_EXCHANGE_URL", "HZN_ORG_ID", "EXCHANGE_USER_ADMIN_PW">>
    IN  get_config(env, order[CHOOSE i \in 1..Len(order) :
                        /\ get_config(env, order[i], FALSE, "").error # ""
                        /\ \A j \in 1..(i - 1) : get_config(env, order[j], FALSE, "").error = ""],
                   FALSE, "").error

fetch_nodes(self, env, r) ==
    IF ~ConfigResolves(env)
    THEN ShowInItemList(self, "Error fetching nodes: " \o RequestConfigError(env))
    ELSE LET sent == Requested(self, "node-details", r)
             nodes == r.body
         IN  IF ~r.net \/ HTTPError(r)
             THEN ShowInItemList(sent, "Error fetching nodes: " \o RequestErrorText(r))
             ELSE IF nodes.kind = "invalid"
             THEN ShowInItemList(sent, "Error fetching nodes: " \o JSONDecodeErrorText)
             ELSE IF ~Truthy(nodes)
             THEN ShowInItemList(sent, "No nodes available.")
             ELSE IF nodes.kind # "list"
             THEN ShowInItemList(sent, "Error fetching nodes: " \o NoAttributeText(JStr(""), "get"))
             ELSE IF \E i \in 1..Len(nodes.items) : nodes.items[i].kind # "object"
             THEN ShowInItemList(sent, "Error fetching nodes: " \o
                     NoAttributeText(nodes.items[CHOOSE i \in 1..Len(nodes.items) :
                         /\ nodes.items[i].kind # "object"
                         /\ \A j \in 1..(i - 1) : nodes.items[j].kind = "object"], "get"))
             ELSE LET node_ids == [i \in 1..Len(nodes.items) |-> IdOf(nodes.items[i], "Unknown")]
                      shown == add_item_list(clear(sent, sent.secondary_menu),
                                             sent.secondary_menu, node_ids)
                  IN  [shown EXCEPT !.nodeArray = NodeDict(nodes.items, <<>>),
                                    !.defined = @ \cup {"nodeArray"}]

\* fetch_services and fetch_patterns are the same code for `services` and `patterns`
FetchMapping(self, env, r, plural, attribute) ==
    IF ~ConfigResolves(env)
    THEN ShowInItemList(self, "Error fetching " \o plural \o ": " \o RequestConfigError(env))
    ELSE LET sent == Requested(self, plural, r)
             response == r.body
             mapping == DictGet(response.items, plural, JObject(<<>>))
             shown == add_item_list(clear(sent, sent.secondary_menu),
                                    sent.secondary_menu, DictKeys(mapping.items))
         IN  IF ~r.net \/ HTTPError(r)
             THEN ShowInItemList(sent, "Error fetching " \o plural \o ": " \o RequestErrorText(r))
             ELSE IF response.kind = "invalid"
             THEN ShowInItemList(sent, "Error fetching " \o plural \o ": " \o JSONDecodeErrorText)
             ELSE IF response.kind # "object"
             THEN ShowInItemList(sent, "Error fetching " \o plural \o ": "
                                       \o NoAttributeText(response, "get"))
             ELSE IF ~Truthy(mapping)
             THEN ShowInItemList(sent, "No " \o plural \o " available.")
             ELSE IF mapping.kind # "object"
             THEN ShowInItemList(sent, "Error fetching " \o plural \o ": "
                                       \o NoAttributeText(mapping, "keys"))
             ELSE IF attribute = "serviceArray"
             THEN [shown EXCEPT !.serviceArray = mapping.items,
                                !.defined = @ \cup {"serviceArray"}]
             ELSE [shown EXCEPT !.patternArray = mapping.items,
                                !.defined = @ \cup {"patternArray"}]

\* fetch_services that issues the GET a second time when the first one failed
fetch_services_retry(self, env, r) ==
    IF ConfigResolves(env) /\ (~r.net \/ HTTPError(r))
    THEN FetchMapping(Requested(self, "services", r), env, r, "services", "serviceArray")
    ELSE FetchMapping(self, env, r, "services", "serviceArray")

fetch_services(self, env, r) == FetchMapping(self, env, r, "services", "serviceArray")
fetch_patterns(self, env, r) == FetchMapping(self, env, r, "patterns", "patternArray")

\* the selection-change handler of the category menu
on_primary_menu_selection(self, env, selected_item, r) ==
    LET singular == CASE selected_item = "Services" -> "service"
                      [] selected_item = "Nodes" -> "node"
                      [] OTHER -> "pattern"
        retitled == set_title(self, self.secondary_menu,
                              "2. Choose a " \o singular \o " to see details")
        cleared == clear(set_title(retitled, retitled.tertiary_menu,
                                   "3. Details for " \o singular),
                         retitled.tertiary_menu)
    IN  IF selected_item \notin {"Services", "Nodes", "Patterns"} THEN self
        ELSE IF self.tertiary_menu = 0 THEN Raise(retitled, "AttributeError")
        ELSE IF selected_item = "Services"
        THEN LET fetched == fetch_services(cleared, env, r)
             IN  IF "serviceArray" \notin fetched.defined THEN Raise(fetched, "AttributeError")
                 ELSE IF Len(fetched.serviceArray) > 0
                 THEN draw_service_details(fetched, fetched.serviceArray[1].k)
                 ELSE fetched
        ELSE IF selected_item = "Nodes"
        THEN LET fetched == fetch_nodes(cleared, env, r)
             IN  IF "nodeArray" \notin fetched.defined THEN Raise(fetched, "AttributeError")
                 ELSE IF Len(fetched.nodeArray) > 0
                 THEN draw_node_details(fetched, fetched.nodeArray[1].k)
                 ELSE fetched
        ELSE LET fetched == fetch_patterns(cleared, env, r)
             IN  IF "patternArray" \notin fetched.defined THEN Raise(fetched, "AttributeError")
                 ELSE IF Len(fetched.patternArray) > 0
                 THEN draw_pattern_details(fetched, fetched.patternArray[1].k)
                 ELSE fetched

\* self.parent.add_scroll_menu(title, ...): the new widget's index is Len(widgets) + 1
add_scroll_menu(self, title) == [self EXCEPT !.widgets = Append(@, ScrollMenu(title))]

\* the two except clauses of __init__: one more menu, titled Error, holding the message
ErrorView(self, message) ==
    LET added == add_scroll_menu(self, "Error")
    IN  add_item_list([added EXCEPT !.primary_menu = Len(added.widgets)],
                      Len(added.widgets), <<message>>)

li == <<"Nodes", "Services", "Patterns", "Policies", "Orgs", "Users">>

RECURSIVE ProcessNodesUntilInvalid(_, _)
\* the loop with `break` where the code has `continue`: it stops at the first
\* entry that is not an object or has no truthy id
ProcessNodesUntilInvalid(data, acc) ==
    IF Len(data) = 0 THEN acc
    ELSE LET node == Head(data)
             node_id == IdOf(node, "")
         IN  IF node.kind # "object" \/ node_id = ""
             THEN acc
             ELSE ProcessNodesUntilInvalid(Tail(data),
                     [lid |-> Append(acc.lid, node_id),
                      nodeArray |-> DictPut(acc.nodeArray, node_id, node)])

RECURSIVE ProcessNodes(_, _)
\* the loop of __init__ over the node list: entries that are not objects or have
\* no truthy id are skipped, the rest are appended to lid and stored in nodeArray
ProcessNodes(data, acc) ==
    IF Len(data) = 0 THEN acc
    ELSE LET node == Head(data)
             node_id == IdOf(node, "")
         IN  IF node.kind # "object" \/ node_id = ""
             THEN ProcessNodes(Tail(data), acc)
             ELSE ProcessNodes(Tail(data),
                     [lid |-> Append(acc.lid, node_id),
                      nodeArray |-> DictPut(acc.nodeArray, node_id, node)])

\* hzncuiApp.__init__ given the environment, the .env files and the two responses
hzncuiApp_init(self, env, files, cred, r) ==
    LET config == load_config(env, files)
        checked == Requested(self, "users/admin", cred)
        sent == Requested(checked, "node-details", r)
        data == r.body
        withPrimary ==
            LET a == add_scroll_menu(sent, "1. Choose an item")
                w == Len(a.widgets)
            IN  set_on_selection_change_event(
                    add_item_list([a EXCEPT !.primary_menu = w], w, li),
                    w, "on_primary_menu_selection")
        withSecondary ==
            LET a == add_scroll_menu(withPrimary, "2. Choose a node to see details")
                w == Len(a.widgets)
            IN  set_on_selection_change_event([a EXCEPT !.secondary_menu = w], w, "drawThirdMenu")
        processed == ProcessNodes(data.items, [lid |-> <<>>, nodeArray |-> <<>>])
        withNodes == [withSecondary EXCEPT !.nodeArray = processed.nodeArray,
                                           !.defined = @ \cup {"nodeArray"}]
        listed == add_item_list(withNodes, withNodes.secondary_menu, processed.lid)
        withTertiary ==
            LET a == add_scroll_menu(listed, "placeholder")
            IN  [a EXCEPT !.tertiary_menu = Len(a.widgets)]
    IN  IF config.error # "" THEN ErrorView(self, config.error)
        ELSE IF ~ConfigResolves(config.environ)
        THEN ErrorView(self, RequestConfigError(config.environ))
        ELSE IF ~cred.net \/ HTTPError(cred)
        THEN ErrorView(checked, "Error: Invalid credentials: " \o RequestErrorText(cred))
        ELSE IF ~r.net
        THEN ErrorView(sent, "Error: " \o RequestErrorText(r))
        ELSE IF data.kind = "invalid"
        THEN ErrorView(sent, "Error: " \o JSONDecodeErrorText)
        ELSE IF data.kind = "object" /\ (DictHas(data.items, "code") \/ DictHas(data.items, "msg"))
        THEN ErrorView(sent, "Error: API Error: "
                             \o PyStr(DictGet(data.items, "msg", JStr("Unknown error"))))
        ELSE IF data.kind # "list"
        THEN ErrorView(sent, "Error: Invalid response format: expected list of nodes")
        ELSE IF Len(processed.lid) = 0
        THEN ErrorView(withNodes, "Error: No valid nodes found in response")
        ELSE drawThirdMenu(withTertiary, get(withTertiary, withTertiary.secondary_menu))

----------------------------------------------------------------------------
(* The state machine *)

Self ==
    [widgets |-> widgets, primary_menu |-> primary_menu, secondary_menu |-> secondary_menu,
     tertiary_menu |-> tertiary_menu, nodeArray |-> nodeArray, serviceArray |-> serviceArray,
     patternArray |-> patternArray, defined |-> defined, raised |-> raised, http |-> <<>>]

\* the controller's attributes after a method returned `out`
Becomes(out) ==
    /\ widgets' = out.widgets
    /\ primary_menu' = out.primary_menu
    /\ secondary_menu' = out.secondary_menu
    /\ tertiary_menu' = out.tertiary_menu
    /\ nodeArray' = out.nodeArray
    /\ serviceArray' = out.serviceArray
    /\ patternArray' = out.patternArray
    /\ defined' = out.defined
    /\ raised' = out.raised
    /\ http' = out.http

RequiredKeys == {required_vars[i] : i \in 1..Len(required_vars)}

\* the environments and .env files the process is started with
FullEnviron == [key \in RequiredKeys |-> "env-" \o key]
NoFiles == [i \in 1..Len(possible_locations) |-> NoFile]
HomeFile ==
    [NoFiles EXCEPT ![2] = EnvFile([key \in RequiredKeys \ {"HZN_ORG_ID"} |-> "file-" \o key])]
Starts == {<<FullEnviron, NoFiles>>, <<<<>>, NoFiles>>, <<<<>>, HomeFile>>}

Init ==
    /\ \E start \in Starts : environ = start[1] /\ envFiles = start[2]
    /\ widgets = <<>>
    /\ primary_menu = 0
    /\ secondary_menu = 0
    /\ tertiary_menu = 0
    /\ nodeArray = <<>>
    /\ serviceArray = <<>>
    /\ patternArray = <<>>
    /\ defined = {}
    /\ raised = ""
    /\ lastOp = [op |-> "main", arg |-> ""]
    /\ http = <<>>

\* main(): hzncuiApp(root) runs the constructor, then root.start() runs the event loop
Initialize ==
    /\ lastOp.op = "main"
    /\ \E cred \in CredResponses, r \in Responses("Nodes") :
          \E out \in {hzncuiApp_init(Self, environ, envFiles, cred, r)} :
             /\ Becomes(out)
             /\ environ' = load_config(environ, envFiles).environ
    /\ lastOp' = [op |-> "__init__", arg |-> ""]
    /\ UNCHANGED envFiles

ResourceTypes == {"Nodes", "Services", "Patterns"}

\* the highlighted item of a menu with on_primary_menu_selection moves to another item
OnCategoryChange ==
    /\ lastOp.op # "main"
    /\ raised = ""
    /\ \E w \in 1..Len(widgets) :
          /\ widgets[w].on_change = "on_primary_menu_selection"
          /\ \E i \in 1..Len(widgets[w].items) :
                /\ i # widgets[w].selected
                /\ LET selected_item == widgets[w].items[i]
                       moved == [Self EXCEPT !.widgets[w].selected = i]
                   IN  /\ \E r \in (IF selected_item \in ResourceTypes
                                    THEN Responses(selected_item) ELSE {ConnectionError}) :
                             \E out \in {on_primary_menu_selection(moved, environ,
                                                                    selected_item, r)} :
                                Becomes(out)
                       /\ lastOp' = [op |-> "on_primary_menu_selection", arg |-> selected_item]
    /\ UNCHANGED <<environ, envFiles>>

\* the highlighted item of a menu with drawThirdMenu moves to another item
OnItemChange ==
    /\ lastOp.op # "main"
    /\ raised = ""
    /\ \E w \in 1..Len(widgets) :
          /\ widgets[w].on_change = "drawThirdMenu"
          /\ \E i \in 1..Len(widgets[w].items) :
                /\ i # widgets[w].selected
                /\ LET moved == [Self EXCEPT !.widgets[w].selected = i]
                   IN  /\ \E out \in {drawThirdMenu(moved, widgets[w].items[i])} : Becomes(out)
                       /\ lastOp' = [op |-> "drawThirdMenu", arg |-> widgets[w].items[i]]
    /\ UNCHANGED <<environ, envFiles>>

Next == Initialize \/ OnCategoryChange \/ OnItemChange

Spec == Init /\ [][Next]_vars

----------------------------------------------------------------------------
(* The configuration resolver on its own: load_config and get_config called *)
(* in any order on any environment and any layout of .env files.  lastOp    *)
(* records the call, its arguments and what it returned or raised.          *)

\* the most load_config calls in a row
MaxCalls == 2

\* os.environ at start: each required key unset, set to the empty string or set
Environs == UNION {[keys -> {"", "env"}] : keys \in SUBSET RequiredKeys}

\* two .env files: one sets an empty value, and they disagree on HZN_ORG_ID
FileA == EnvFile([key \in {"HZN_ORG_ID", "HZN_EXCHANGE_URL"} |->
                    IF key = "HZN_ORG_ID" THEN "file-a" ELSE ""])
FileB == EnvFile([key \in {"HZN_ORG_ID", "EXCHANGE_USER_ADMIN_PW"} |-> "file-b"])
\* what each of the four locations holds
FileLayouts == [1..Len(possible_locations) -> {NoFile, FileA, FileB}]

ConfigInit ==
    /\ environ \in Environs
    /\ envFiles \in FileLayouts
    /\ widgets = <<>>
    /\ primary_menu = 0
    /\ secondary_menu = 0
    /\ tertiary_menu = 0
    /\ nodeArray = <<>>
    /\ serviceArray = <<>>
    /\ patternArray = <<>>
    /\ defined = {}
    /\ raised = ""
    /\ lastOp = [op |-> "main", arg |-> ""]
    /\ http = <<>>

\* load_config()
LoadConfig ==
    /\ (IF lastOp.op = "load_config" THEN lastOp.nth ELSE 0) < MaxCalls
    /\ \E out \in {load_config(environ, envFiles)} :
          /\ environ' = out.environ
          /\ lastOp' = [op |-> "load_config", arg |-> "", error |-> out.error,
                        before |-> environ,
                        nth |-> IF lastOp.op = "load_config" THEN lastOp.nth + 1 ELSE 1]
    /\ UNCHANGED <<envFiles, widgets, primary_menu, secondary_menu, tertiary_menu,
                   nodeArray, serviceArray, patternArray, defined, raised, http>>

\* get_config(key) and get_config(key, default)
GetConfig ==
    /\ \E key \in RequiredKeys, hasDefault \in BOOLEAN, default \in {"", "fallback"} :
          /\ hasDefault \/ default = ""
          /\ \E out \in {get_config(environ, key, hasDefault, default)} :
                lastOp' = [op |-> "get_config", arg |-> key, hasDefault |-> hasDefault,
                           default |-> default, value |-> out.value, error |-> out.error]
    /\ UNCHANGED <<environ, envFiles, widgets, primary_menu, secondary_menu, tertiary_menu,
                   nodeArray, serviceArray, patternArray, defined, raised, http>>

ConfigNext == LoadConfig \/ GetConfig

ConfigSpec == ConfigInit /\ [][ConfigNext]_vars

----------------------------------------------------------------------------
(* Vocabulary of the properties *)

\* the constructor has run
Constructed == lastOp.op # "main"
\* an except clause of the constructor ran: the Error menu exists
ErrorShown == \E w \in 1..Len(widgets) : widgets[w].title = "Error"
\* the constructor completed: category, item and detail pane exist
ThreePane == Constructed /\ tertiary_menu # 0

ItemPane == widgets[secondary_menu]
DetailPane == widgets[tertiary_menu]
\* the highlighted item of the category menu
Category ==
    LET w == CHOOSE w \in 1..Len(widgets) : widgets[w].on_change = "on_primary_menu_selection"
    IN  widgets[w].items[widgets[w].selected]

Plural(type) ==
    CASE type = "Nodes" -> "nodes" [] type = "Services" -> "services" [] OTHER -> "patterns"
Singular(type) ==
    CASE type = "Nodes" -> "node" [] type = "Services" -> "service" [] OTHER -> "pattern"

\* the in-memory collection of a resource type
CollectionOf(type) ==
    CASE type = "Nodes" -> nodeArray
      [] type = "Services" -> serviceArray
      [] OTHER -> patternArray
\* the resource type the item pane is titled for
ItemPaneType ==
    CHOOSE type \in ResourceTypes :
        ItemPane.title = "2. Choose a " \o Singular(type) \o " to see details"
\* the collections that hold records
LiveCollections == {type \in ResourceTypes : Len(CollectionOf(type)) > 0}

DetailsOf(type, record) ==
    CASE type = "Nodes" -> NodeDetails(record)
      [] type = "Services" -> ServiceDetails(record)
      [] OTHER -> PatternDetails(record)

\* every text an absorbed fetch failure can carry
ErrorTexts ==
    {RequestErrorText(r) : r \in NodeResponses \cup ServiceResponses \cup PatternResponses}
    \cup {JSONDecodeErrorText}
    \cup {NoAttributeText(j, m) : j \in {JNull, JStr(""), JList(<<>>), JObject(<<>>)},
                                  m \in {"get", "keys"}}
EmptyMessage(type) == "No " \o Plural(type) \o " available."
ErrorMessages(type) == {"Error fetching " \o Plural(type) \o ": " \o t : t \in ErrorTexts}
Messages(type) == {EmptyMessage(type)} \cup ErrorMessages(type)
\* the item pane holds one line, and it is a fetch error of this type
ShowsFetchError(type) ==
    Len(ItemPane.items) = 1 /\ ItemPane.items[1] \in ErrorMessages(type)
\* the ids the item pane shows: its lines that are not messages
ShownIds ==
    {ItemPane.items[i] : i \in 1..Len(ItemPane.items)} \ UNION {Messages(t) : t \in ResourceTypes}

\* how the specification classifies a response to the GET for a resource type
Is2xx(r) == r.status >= 200 /\ r.status < 300
HasEnvelope(body) ==
    body.kind = "object" /\ (DictHas(body.items, "code") \/ DictHas(body.items, "msg"))
ExpectedShape(type, body) ==
    IF type = "Nodes" THEN body.kind = "list"
    ELSE /\ body.kind = "object"
         /\ DictHas(body.items, Plural(type))
         /\ DictGet(body.items, Plural(type), JNull).kind = "object"
FetchFails(type, r) ==
    \/ ~r.net
    \/ ~Is2xx(r)
    \/ r.body.kind = "invalid"
    \/ HasEnvelope(r.body)
    \/ ~ExpectedShape(type, r.body)
\* the records a response of the expected shape carries, as (id, record) pairs
Carried(type, r) ==
    IF ~r.net \/ ~ExpectedShape(type, r.body) THEN <<>>
    ELSE IF type = "Nodes"
    THEN [i \in 1..Len(r.body.items) |->
            Pair(IdOf(r.body.items[i], PyNone), r.body.items[i])]
    ELSE DictGet(r.body.items, Plural(type), JNull).items
ZeroResources(type, r) == ~FetchFails(type, r) /\ Len(Carried(type, r)) = 0

\* the last operation was a category change to a resource type, answered by one response
CategoryFetched ==
    /\ lastOp.op = "on_primary_menu_selection"
    /\ lastOp.arg \in ResourceTypes
    /\ Len(http) = 1
LastResponse == http[1].response

----------------------------------------------------------------------------
(* Properties *)

\* C1: in every state reached through a completed Initialize and category
\* changes between resource types, every id the item pane shows has an entry
\* in the collection of the selected resource type, and exactly one
\* collection holds records.
C1_DisplayedIdsInLiveCollection ==
    (ThreePane /\ raised = "" /\ Category \in ResourceTypes) =>
        /\ \A id \in ShownIds : DictHas(CollectionOf(Category), id)
        /\ Cardinality(LiveCollections) = 1

\* C2: after a completed Initialize no category change raises out of the
\* handler, and a failed fetch shows as an error line in the item pane.
C2_CategoryChangeNeverRaises ==
    (ThreePane /\ lastOp.op = "on_primary_menu_selection") =>
        /\ raised = ""
        /\ (CategoryFetched /\ FetchFails(lastOp.arg, LastResponse))
              => ShowsFetchError(lastOp.arg)

\* C3: when Initialize failed, the Error menu with the failure message is the
\* only pane, nothing raises, and no operation after it issues a request.
C3_FailedInitializeIsSinglePaneAndSilent ==
    ErrorShown =>
        /\ Len(widgets) = 1
        /\ Len(widgets[primary_menu].items) = 1
        /\ raised = ""
        /\ (lastOp.op # "__init__" => http = <<>>)

\* C4: when the fetch of a category change returns zero resources, the item
\* pane shows exactly "No {type} available." and no detail item is rendered.
C4_EmptyResultShowsMessageOnly ==
    (ThreePane /\ CategoryFetched /\ ZeroResources(lastOp.arg, LastResponse)) =>
        /\ ItemPane.items = <<EmptyMessage(lastOp.arg)>>
        /\ DetailPane.items = <<>>

\* C5: after a category change to a resource type, the item pane holds only
\* ids of the latest fetch of that type (or one message about it) and the
\* detail pane is empty or renders a record of that fetch.
C5_PanesHoldOnlyTheLatestFetch ==
    (ThreePane /\ CategoryFetched /\ raised = "") =>
        LET fetched == Carried(lastOp.arg, LastResponse)
        IN  /\ \A i \in 1..Len(ItemPane.items) :
                  \/ ItemPane.items[i] \in Messages(lastOp.arg)
                  \/ \E a \in 1..Len(fetched) :
                        ItemPane.items[i] = (IF fetched[a].k = PyNone THEN "Unknown"
                                             ELSE fetched[a].k)
            /\ \/ DetailPane.items = <<>>
               \/ \E a \in 1..Len(fetched) :
                     /\ DetailPane.title = "3. Details for " \o Singular(lastOp.arg)
                                           \o " " \o fetched[a].k
                     /\ DetailPane.items = DetailsOf(lastOp.arg, fetched[a].v)

\* C6: a response body with a `code` or `msg` field is shown as an error,
\* whatever the status: as the Error view at Initialize, as a fetch error
\* line in the item pane on a category change.
C6_EnvelopeIsAlwaysAnError ==
    \A i \in 1..Len(http) :
        (http[i].endpoint # "users/admin" /\ http[i].response.net
         /\ HasEnvelope(http[i].response.body)) =>
            IF lastOp.op = "__init__" THEN ErrorShown ELSE ShowsFetchError(lastOp.arg)

\* C7: a 2xx response that is valid JSON of another shape than the resource
\* type's gives a fetch error line in the item pane.
C7_WrongShapeIsAFetchError ==
    (ThreePane /\ CategoryFetched /\ raised = ""
     /\ LastResponse.net /\ Is2xx(LastResponse)
     /\ LastResponse.body.kind # "invalid"
     /\ ~ExpectedShape(lastOp.arg, LastResponse.body)) =>
        ShowsFetchError(lastOp.arg)

\* C8: the body of a non-2xx response is never used: Initialize ends in the
\* Error view, a category change in a fetch error line.
C8_Non2xxBodyIsNeverUsed ==
    \A i \in 1..Len(http) :
        (http[i].endpoint # "users/admin" /\ http[i].response.net
         /\ ~Is2xx(http[i].response)) =>
            IF lastOp.op = "__init__" THEN ErrorShown ELSE ShowsFetchError(lastOp.arg)

\* C9: after an item change to an id that the collection of the selected
\* category holds, the detail pane renders that record with the field set of
\* the category's type, and no request was issued.
C9_ItemChangeRendersFromSelectedCategory ==
    (lastOp.op = "drawThirdMenu" /\ raised = "" /\ Category \in ResourceTypes
     /\ DictHas(CollectionOf(Category), lastOp.arg)) =>
        /\ http = <<>>
        /\ DetailPane.title = "3. Details for " \o Singular(Category) \o " " \o lastOp.arg
        /\ DetailPane.items =
              DetailsOf(Category, DictGet(CollectionOf(Category), lastOp.arg, JNull))

\* C10: an item change to an id that the collection shown in the item pane
\* does not hold raises nothing, issues no request and leaves the detail pane
\* (title and lines) and all three collections as they were.
C10_LookupMissChangesNothing ==
    [][(lastOp'.op = "drawThirdMenu"
        /\ ~DictHas(CollectionOf(ItemPaneType), lastOp'.arg)) =>
            /\ raised' = ""
            /\ http' = <<>>
            /\ tertiary_menu' = tertiary_menu
            /\ widgets'[tertiary_menu'] = widgets[tertiary_menu]
            /\ UNCHANGED <<nodeArray, serviceArray, patternArray, defined>>]_vars

\* a lookup miss happened: the highlighted item is not an id of the collection
C10_Witness ==
    /\ lastOp.op = "drawThirdMenu"
    /\ raised = ""
    /\ ThreePane
    /\ ~DictHas(CollectionOf(ItemPaneType), lastOp.arg)
    /\ Len(DetailPane.items) > 0

\* the node-details response of the last operation (Initialize or a Nodes selection)
NodesAnswered ==
    /\ \/ lastOp.op = "__init__"
       \/ (lastOp.op = "on_primary_menu_selection" /\ lastOp.arg = "Nodes")
    /\ \E i \in 1..Len(http) : http[i].endpoint = "node-details"
NodesResponse ==
    http[CHOOSE i \in 1..Len(http) : http[i].endpoint = "node-details"].response
\* a non-empty array of objects that each carry a non-empty `id`
WellFormedNodes(body) ==
    /\ body.kind = "list"
    /\ Len(body.items) > 0
    /\ \A i \in 1..Len(body.items) :
          /\ body.items[i].kind = "object"
          /\ DictHas(body.items[i].items, "id")
          /\ DictGet(body.items[i].items, "id", JNull).kind = "str"
          /\ DictGet(body.items[i].items, "id", JNull).s # ""
ResponseIds(body) ==
    [i \in 1..Len(body.items) |-> DictGet(body.items[i].items, "id", JNull).s]
RECURSIVE Distinct(_, _)
\* the sequence `ids` without the later occurrences of a repeated id
Distinct(ids, seen) ==
    IF Len(ids) = 0 THEN <<>>
    ELSE (IF Head(ids) \in seen THEN <<>> ELSE <<Head(ids)>>)
         \o Distinct(Tail(ids), seen \cup {Head(ids)})

\* C11: after Initialize or a Nodes selection answered 2xx with a non-empty
\* array of objects that each carry an id, the item list is the response's ids
\* in response order with no id repeated, and the node collection's keys are
\* exactly those ids.
C11_ItemListIsTheResponseIdsOnce ==
    (NodesAnswered /\ raised = "" /\ NodesResponse.net /\ Is2xx(NodesResponse)
     /\ WellFormedNodes(NodesResponse.body)) =>
        LET ids == Distinct(ResponseIds(NodesResponse.body), {})
        IN  /\ ItemPane.items = ids
            /\ {nodeArray[i].k : i \in 1..Len(nodeArray)} = {ids[i] : i \in 1..Len(ids)}
            /\ Len(nodeArray) = Len(ids)

\* the text of a JSON scalar as the registry sent it
RawText(j) == IF j.kind = "null" THEN "null" ELSE j.s
\* the labels the detail view of a resource type puts before its fields
FieldLabels(type) ==
    CASE type = "Nodes" ->
            <<"   node type: ", "architecture: ", "    services: ",
              "   heartbeat: ", "      owner: ", "       name: ">>
      [] type = "Services" ->
            <<"   service type: ", "   version: ", "   owner: ", "   name: ">>
      [] OTHER ->
            <<"   label: ", "   description: ", "   owner: ", "   public: ",
              "   lastUpdated: ">>
FieldsOf(type) ==
    CASE type = "Nodes" -> NodeFields
      [] type = "Services" -> ServiceFields
      [] OTHER -> PatternFields
\* the detail view the specification asks for: "N/A" for a missing field, the
\* record's own value for a present one
VerbatimDetails(type, record) ==
    [f \in 1..Len(FieldsOf(type)) |->
        FieldLabels(type)[f] \o
            (IF DictHas(record.items, FieldsOf(type)[f])
             THEN RawText(DictGet(record.items, FieldsOf(type)[f], JNull))
             ELSE "N/A")]
\* the last category change fetched a non-empty collection and listed its ids
FetchedAndListed ==
    /\ ThreePane /\ CategoryFetched /\ raised = ""
    /\ ~FetchFails(lastOp.arg, LastResponse)
    /\ Len(Carried(lastOp.arg, LastResponse)) > 0
    /\ ItemPane.items[1] \notin Messages(lastOp.arg)

\* C12: the detail view drawn for the first record of a freshly fetched
\* collection shows "N/A" for exactly the display fields the record lacks and
\* the record's own value for every field it has.
C12_MissingFieldsAreNAOthersVerbatim ==
    FetchedAndListed =>
        DetailPane.items = VerbatimDetails(lastOp.arg, CollectionOf(lastOp.arg)[1].v)

\* the settings file load_config is to use: the one at the first of the four
\* locations that has one
UsedFile ==
    IF \A i \in 1..4 : ~envFiles[i].exists THEN NoFile
    ELSE envFiles[CHOOSE i \in 1..4 :
                     envFiles[i].exists /\ \A j \in 1..4 : envFiles[j].exists => i <= j]
\* a load_config call just returned or raised
Loaded == lastOp.op = "load_config"
\* the key was set neither in the environment the call found nor in the file
Unset(key) == key \notin DOMAIN lastOp.before /\ key \notin DOMAIN UsedFile.vars

\* C13: load_config raises one ConfigError whose message lists exactly the
\* required keys that are set nowhere, and returns normally exactly when there
\* is no such key.
C13_LoadNamesExactlyTheMissingKeys ==
    Loaded =>
        LET missing == SelectSeq(required_vars, Unset)
        IN  /\ (lastOp.error = "") <=> (missing = <<>>)
            /\ missing # <<>> =>
                  lastOp.error = "Missing required configuration: " \o Join(missing, ", ")
                      \o "\nPlease set these in your .env file or environment variables."

\* load_config failed with all three required keys missing
C13_Witness ==
    /\ Loaded
    /\ \A i \in 1..Len(required_vars) : Unset(required_vars[i])
    /\ lastOp.error = "Missing required configuration: "
                       \o "HZN_ORG_ID, HZN_EXCHANGE_URL, EXCHANGE_USER_ADMIN_PW"
                       \o "\nPlease set these in your .env file or environment variables."

\* C14: when a required key resolves to the empty string after the merge,
\* load_config treats it as missing and raises ConfigError.
C14_EmptyRequiredValueFailsLoad ==
    (Loaded /\ \E key \in RequiredKeys : key \in DOMAIN environ /\ environ[key] = "") =>
        lastOp.error # ""

\* C15: get_config returns the value of a key that is set, whatever default
\* was passed; for a key that is not set it returns the default when one was
\* passed and raises ConfigError otherwise; the environment stays as it was.
C15_GetReturnsValueElseDefaultElseFails ==
    [][lastOp'.op = "get_config" =>
          /\ environ' = environ
          /\ IF lastOp'.arg \in DOMAIN environ
             THEN lastOp'.value = environ[lastOp'.arg] /\ lastOp'.error = ""
             ELSE IF lastOp'.hasDefault
             THEN lastOp'.value = lastOp'.default /\ lastOp'.error = ""
             ELSE lastOp'.error # ""]_vars

\* get_config was called with a default for a key that is set to another value
C15_Witness ==
    /\ lastOp.op = "get_config"
    /\ lastOp.hasDefault
    /\ lastOp.arg \in DOMAIN environ
    /\ environ[lastOp.arg] # lastOp.default
    /\ lastOp.value = environ[lastOp.arg]

\* C16: load_config takes the file of the first of the locations cwd, home,
\* package directory, its parent that has one; afterwards every key of that
\* file has the file's value, also where the environment held another value,
\* and every other key is set or unset, and valued, as it was before.
C16_FirstFileOverridesEnvironment ==
    Loaded =>
        /\ possible_locations = <<"cwd", "home", "package", "project_root">>
        /\ \A key \in RequiredKeys :
              IF key \in DOMAIN UsedFile.vars
              THEN key \in DOMAIN environ /\ environ[key] = UsedFile.vars[key]
              ELSE /\ (key \in DOMAIN environ) <=> (key \in DOMAIN lastOp.before)
                   /\ key \in DOMAIN environ => environ[key] = lastOp.before[key]

\* load_config ran with files at two locations that disagree on a key the
\* environment had already set to a third value
C16_Witness ==
    /\ Loaded
    /\ lastOp.nth = 1
    /\ \E i, j \in 1..4 :
          /\ i < j
          /\ envFiles[i].exists /\ envFiles[j].exists /\ envFiles[i] # envFiles[j]
          /\ UsedFile = envFiles[i]
    /\ \E key \in DOMAIN UsedFile.vars :
          /\ key \in DOMAIN lastOp.before
          /\ lastOp.before[key] # UsedFile.vars[key]
          /\ environ[key] = UsedFile.vars[key]

\* C17: a load_config call that directly follows another one, with the same
\* files, ends as the first did (returns, or raises the same ConfigError) and
\* leaves every key resolving as the first call left it.
C17_LoadTwiceIsLoadOnce ==
    [][(lastOp.op = "load_config" /\ lastOp'.op = "load_config") =>
          /\ lastOp'.error = lastOp.error
          /\ environ' = environ]_vars

\* load_config ran a second time in a row with a settings file that sets a
\* key the first call found set to another value or not at all
C17_Witness ==
    /\ Loaded
    /\ lastOp.nth = 2
    /\ UsedFile.exists
    /\ \E key \in DOMAIN UsedFile.vars : environ[key] = UsedFile.vars[key]

ItemTitle(type) == "2. Choose a " \o Singular(type) \o " to see details"
\* the detail pane is titled for this resource type, with or without an id of it
DetailTitledFor(type) ==
    \/ DetailPane.title = "3. Details for " \o Singular(type)
    \/ \E i \in 1..Len(CollectionOf(type)) :
          DetailPane.title = "3. Details for " \o Singular(type) \o " " \o CollectionOf(type)[i].k

\* C18: after a category change to any of the six categories the item pane
\* and the detail pane are titled for that category and for no other, and
\* the detail pane holds nothing of the category shown before.
C18_EveryCategoryRetitlesAndClears ==
    (ThreePane /\ lastOp.op = "on_primary_menu_selection" /\ raised = "") =>
        IF lastOp.arg \in ResourceTypes
        THEN ItemPane.title = ItemTitle(lastOp.arg) /\ DetailTitledFor(lastOp.arg)
        ELSE /\ \A type \in ResourceTypes :
                  ItemPane.title # ItemTitle(type) /\ ~DetailTitledFor(type)
             /\ DetailPane.items = <<>>

\* C19: after a category change whose fetch succeeded with a non-empty
\* collection, the detail pane is titled for the first id of the item list
\* and shows the detail view of the first record of that response.
C19_FirstEntryIsAutoSelected ==
    FetchedAndListed =>
        /\ DetailPane.title =
              "3. Details for " \o Singular(lastOp.arg) \o " " \o ItemPane.items[1]
        /\ DetailPane.items =
              DetailsOf(lastOp.arg, Carried(lastOp.arg, LastResponse)[1].v)

\* C20: the credential check is the first request of Initialize and is never
\* issued again; when it fails or answers with a status outside 2xx, no
\* node-details request follows, the Error view is shown and no handler is
\* registered that could fetch later.
C20_CredentialCheckGatesEveryFetch ==
    /\ (lastOp.op = "__init__" /\ Len(http) > 0) =>
          /\ http[1].endpoint = "users/admin"
          /\ \A i \in 2..Len(http) : http[i].endpoint # "users/admin"
          /\ (~http[1].response.net \/ ~Is2xx(http[1].response)) =>
                /\ Len(http) = 1
                /\ ErrorShown
                /\ \A w \in 1..Len(widgets) : widgets[w].on_change = ""
    /\ lastOp.op \notin {"main", "__init__"} =>
          \A i \in 1..Len(http) : http[i].endpoint # "users/admin"

\* a failure of the GET itself: no response, a 4xx/5xx status or a body that
\* is not JSON
RequestFailed(r) == ~r.net \/ HTTPError(r) \/ r.body.kind = "invalid"

\* C21: a category change whose GET fails does not raise, leaves exactly one
\* fetch error line in the item pane, and leaves the category menu's items
\* and all three collections as they were; a category change that follows a
\* shown fetch error and whose fetch succeeds lists the fetched ids.
C21_FailedFetchIsLocalAndRecoverable ==
    [][(lastOp'.op = "on_primary_menu_selection" /\ lastOp'.arg \in ResourceTypes
        /\ tertiary_menu # 0 /\ Len(http') = 1) =>
          /\ RequestFailed(http'[1].response) =>
                /\ raised' = ""
                /\ Len(widgets'[secondary_menu'].items) = 1
                /\ widgets'[secondary_menu'].items[1] \in ErrorMessages(lastOp'.arg)
                /\ widgets'[primary_menu'].items = widgets[primary_menu].items
                /\ UNCHANGED <<nodeArray, serviceArray, patternArray, defined>>
          /\ (ShowsFetchError(ItemPaneType) /\ ~FetchFails(lastOp'.arg, http'[1].response)
              /\ Len(Carried(lastOp'.arg, http'[1].response)) > 0
              /\ \A i \in 1..Len(Carried(lastOp'.arg, http'[1].response)) :
                    Carried(lastOp'.arg, http'[1].response)[i].v.kind = "object") =>
                /\ raised' = ""
                /\ Len(widgets'[secondary_menu'].items)
                      = Len(Carried(lastOp'.arg, http'[1].response))
                /\ widgets'[secondary_menu'].items[1] \notin Messages(lastOp'.arg)]_vars

\* C22: a category change issues at most one request, also when that request
\* fails, and an item change issues none.
C22_AtMostOneRequestPerAction ==
    /\ lastOp.op = "on_primary_menu_selection" => Len(http) <= 1
    /\ lastOp.op = "drawThirdMenu" => http = <<>>

\* a category change whose one GET failed has returned
C22_Witness ==
    /\ ThreePane /\ CategoryFetched /\ raised = ""
    /\ RequestFailed(LastResponse)
    /\ ShowsFetchError(lastOp.arg)

\* Initialize got as far as the loop over the node list
NodeListProcessed ==
    /\ lastOp.op = "__init__"
    /\ Len(http) = 2
    /\ http[2].response.net
    /\ http[2].response.body.kind = "list"
\* an entry the loop keeps: an object with a non-empty id
ValidNode(node) ==
    /\ node.kind = "object"
    /\ DictHas(node.items, "id")
    /\ DictGet(node.items, "id", JNull).s # ""
ValidNodes == SelectSeq(http[2].response.body.items, ValidNode)

\* C23: when Initialize reaches the node list, the entries that are objects
\* with a non-empty id fill the item list and the node collection in response
\* order and the three panes are shown; when there is no such entry, the Error
\* menu shows "No valid nodes found in response" and no detail pane is made.
C23_InitializeSkipsInvalidNodes ==
    NodeListProcessed =>
        LET ids == [i \in 1..Len(ValidNodes) |-> DictGet(ValidNodes[i].items, "id", JNull).s]
        IN  IF Len(ValidNodes) = 0
            THEN /\ ErrorShown
                 /\ widgets[primary_menu].title = "Error"
                 /\ widgets[primary_menu].items = <<"Error: No valid nodes found in response">>
                 /\ tertiary_menu = 0
            ELSE /\ ~ErrorShown
                 /\ tertiary_menu # 0
                 /\ ItemPane.items = ids
                 /\ DictKeys(nodeArray) = Distinct(ids, {})
                 /\ \A i \in 1..Len(nodeArray) :
                       \E a \in 1..Len(ValidNodes) :
                          nodeArray[i].v = ValidNodes[a] /\ nodeArray[i].k = ids[a]

\* Initialize skipped an entry and listed the node that came after it
C23_Witness ==
    /\ NodeListProcessed
    /\ tertiary_menu # 0
    /\ ~ValidNode(http[2].response.body.items[1])
    /\ Len(ItemPane.items) = 1

\* Initialize found no valid node in a non-empty list
C23_WitnessNoValidNode ==
    /\ NodeListProcessed
    /\ Len(http[2].response.body.items) > 0
    /\ Len(ValidNodes) = 0
    /\ ErrorShown

====
